---------------------------- MODULE Spec2Model ----------------------------
(* UART driver of src/freertos/stm32f746g-discovery/uart_driver.cc.        *)
(*                                                                         *)
(* Three execution contexts are modelled:                                  *)
(*   - the interrupt handler (one atomic action: it runs at interrupt      *)
(*     priority and is never preempted by task-level code),                *)
(*   - the consumer task (UartDriverImpl::Task),                           *)
(*   - three client threads, one calling Read, one Write, one GetError.    *)
(* Task-level code is split at every access to state shared with the       *)
(* interrupt handler, so the handler can preempt it between any two lines. *)
(*                                                                         *)
(* The driver never inspects the value of a data byte, so the transmitted  *)
(* stream is Payload (pairwise distinct bytes) and the k-th byte the       *)
(* hardware receives has the value k: every loss, duplication or           *)
(* reordering of a byte is visible in the sequences compared below.        *)
EXTENDS Integers, Sequences, FiniteSets, TLC

(***************************************************************************)
(* Bounds                                                                  *)
(***************************************************************************)
\* capacity of the RX ring (511 in the source, scaled down)
kRxBufferSize == 2
\* capacity of the TX ring (511 in the source, scaled down)
kTxBufferSize == 2
\* size of the transmit staging block tx_data_
kTxBlockSize == 2
\* number of bytes the hardware delivers on the receive line
MaxRx == 3
\* length of the stream the writer client sends
MaxBytes == 5
\* largest count a client passes to Read
MaxReadCount == 3
\* number of driver instances the public surface may construct
MaxInst == 2
\* bytes the writer sends and bytes the line delivers in the signal-path
\* specification
MaxSigBytes == 2
MaxSigRx == 1
\* bytes the writer sends plus bytes the line delivers in the mutex-path
\* specification
MaxLockTraffic == 2

(***************************************************************************)
(* Program constants                                                       *)
(***************************************************************************)
kReceivedBit == 1
kTransmittedBit == 2
kErrorBit == 8

\* error codes of the STM32 HAL (stm32f7xx_hal_uart.h)
HAL_UART_ERROR_PE == 1
HAL_UART_ERROR_NE == 2
HAL_UART_ERROR_FE == 4
HAL_UART_ERROR_ORE == 8

kIllegalDeviceId == 0
DeviceIds == {kIllegalDeviceId, 42}

\* width of the masks that are modelled (bits 0..3 are the only ones used)
MaskBits == 4

(***************************************************************************)
(* Bit masks                                                               *)
(***************************************************************************)
Bit(m, i) == (m \div (2^i)) % 2

BitOr(a, b) ==
  LET v(i) == IF Bit(a, i) = 1 \/ Bit(b, i) = 1 THEN 2^i ELSE 0
      RECURSIVE sum(_)
      sum(i) == IF i < 0 THEN 0 ELSE v(i) + sum(i - 1)
  IN  sum(MaskBits - 1)

BitAnd(a, b) ==
  LET v(i) == IF Bit(a, i) = 1 /\ Bit(b, i) = 1 THEN 2^i ELSE 0
      RECURSIVE sum(_)
      sum(i) == IF i < 0 THEN 0 ELSE v(i) + sum(i - 1)
  IN  sum(MaskBits - 1)

\* a & ~b
BitClear(a, b) == a - BitAnd(a, b)

Min(a, b) == IF a < b THEN a ELSE b

IsPrefix(s, t) == Len(s) <= Len(t) /\ SubSeq(t, 1, Len(s)) = s

(***************************************************************************)
(* CircularBuffer: storage of capacity + 1 bytes, a write cursor (head)    *)
(* and a read cursor (tail); empty iff the cursors are equal, full iff     *)
(* advancing the write cursor would make it equal the read cursor.         *)
(***************************************************************************)
CBNew(capacity) ==
  [cap |-> capacity, buf |-> [i \in 0..capacity |-> 0], head |-> 0, tail |-> 0]

CBSize(cb) == (cb.head - cb.tail + cb.cap + 1) % (cb.cap + 1)

CBFree(cb) == cb.cap - CBSize(cb)

CBIsEmpty(cb) == cb.head = cb.tail

CBIsFull(cb) == (cb.head + 1) % (cb.cap + 1) = cb.tail

\* the bytes in the ring, oldest first
CBContents(cb) ==
  [k \in 1..CBSize(cb) |-> cb.buf[(cb.tail + k - 1) % (cb.cap + 1)]]

\* Write(data, count): copies as many bytes of data as fit; n is the
\* number copied
CBWrite(cb, data) ==
  LET n == Min(Len(data), CBFree(cb))
      slot(k) == (cb.head + k - 1) % (cb.cap + 1)
  IN  [cb |-> [cb EXCEPT
                 !.buf = [i \in 0..cb.cap |->
                            IF \E k \in 1..n : slot(k) = i
                              THEN data[CHOOSE k \in 1..n : slot(k) = i]
                              ELSE cb.buf[i]],
                 !.head = (cb.head + n) % (cb.cap + 1)],
       n |-> n]

\* Read(out, maxCount): copies up to maxCount bytes out and advances the
\* read cursor; n is the number copied
CBRead(cb, maxCount) ==
  LET n == Min(maxCount, CBSize(cb))
  IN  [cb |-> [cb EXCEPT !.tail = (cb.tail + n) % (cb.cap + 1)],
       data |-> [k \in 1..n |-> cb.buf[(cb.tail + k - 1) % (cb.cap + 1)]],
       n |-> n]

(***************************************************************************)
(* The stream the writer client sends and the bytes the line delivers      *)
(***************************************************************************)
Payload == [k \in 1..MaxBytes |-> 100 + k]

\* the byte in the receive data register at the k-th arrival
RDR(k) == k

\* values an uninitialised member can hold
IndetLen == 0..kTxBlockSize
\* (the driver never inspects a data byte: one value that differs from every
\* byte of Payload stands for the content of an uninitialised byte)
IndetByte == {255}

(***************************************************************************)
(* State                                                                   *)
(***************************************************************************)
VARIABLES
  \* hardware
  it_en,          \* enabled interrupt sources of the UART
  nvic_en,        \* USART1_IRQn enabled at the NVIC
  tdr,            \* bytes written to the transmit data register, in order
  nArrived,       \* bytes delivered by the receive line so far
  \* module level and public surface
  uart1,          \* instance the interrupt entry point dispatches to (0: none)
  context,        \* driver->context (0: none)
  nInst,          \* instances constructed so far
  bound,          \* every instance uart1 has ever been set to
  halted,         \* a fatal error (ASSERT, UNREACHABLE) terminated the program
  \* UartDriverImpl members of the instance in context
  error_,
  read_buffer_,
  write_buffer_,
  device_id_,
  tx_mutex_,      \* holder of the mutex: "none", "task", "reader", "writer"
  tx_pending_,
  tx_data_,
  tx_length_,
  tx_progress_,
  signals,        \* signal bits pending for the consumer task's thread
  \* device-registration subsystem
  dm_flags,       \* readiness bits of the device
  \* consumer task
  t_pc,
  t_flags,        \* event.value.signals
  \* Read client
  r_pc,
  r_count,        \* count argument of the call in progress
  r_c,            \* local c
  r_pre,          \* bytes in the RX ring when line 78 ran
  r_cleared,      \* ClearFlags calls issued by the last Read call
  r_ret,          \* value returned by the last Read call
  r_out,          \* all bytes returned by Read calls, in order
  rx_stored,      \* all bytes the handler stored into the RX ring, in order
  \* Write client
  w_pc,
  w_count,        \* count argument of the call in progress
  w_free,         \* free space of the TX ring when line 88 ran
  w_written,      \* local written_count
  w_ret,          \* value returned by the last Write call
  nAccepted,      \* bytes of Payload accepted by Write so far
  \* GetError client
  g_pc,
  g_ret           \* value returned by the last GetError call

hwVars == <<it_en, nvic_en, tdr, nArrived>>
modVars == <<uart1, context, nInst, bound, halted>>
txVars == <<tx_pending_, tx_data_, tx_length_, tx_progress_>>
drvVars == <<error_, read_buffer_, write_buffer_, device_id_, tx_mutex_, signals>>
taskVars == <<t_pc, t_flags>>
readVars == <<r_pc, r_count, r_c, r_pre, r_cleared, r_ret, r_out>>
writeVars == <<w_pc, w_count, w_free, w_written, w_ret, nAccepted>>
errVars == <<g_pc, g_ret>>

vars == <<hwVars, modVars, txVars, drvVars, taskVars, readVars, writeVars,
          errVars, dm_flags, rx_stored>>

(***************************************************************************)
(* Construction                                                            *)
(***************************************************************************)
\* UartDriverImpl::UartDriverImpl: the members the constructor sets; the
\* staging block (tx_data_, tx_length_, tx_progress_) is left uninitialised
Constructed ==
  /\ error_' = 0
  /\ read_buffer_' = CBNew(kRxBufferSize)
  /\ write_buffer_' = CBNew(kTxBufferSize)
  /\ tx_mutex_' = "none"
  /\ tx_pending_' = FALSE
  /\ tx_data_' \in [0..kTxBlockSize - 1 -> IndetByte]
  /\ tx_length_' \in IndetLen
  /\ tx_progress_' \in IndetLen

\* No instance exists before the public Initialize runs; en are the
\* interrupt sources enabled in the UART's control registers at that time.
Started(en) ==
  /\ it_en = en
  /\ nvic_en = FALSE
  /\ tdr = <<>>
  /\ nArrived = 0
  /\ uart1 = 0
  /\ context = 0
  /\ nInst = 0
  /\ bound = {}
  /\ halted = FALSE
  /\ error_ = 0
  /\ read_buffer_ = CBNew(kRxBufferSize)
  /\ write_buffer_ = CBNew(kTxBufferSize)
  /\ device_id_ = kIllegalDeviceId
  /\ tx_mutex_ = "none"
  /\ tx_pending_ = FALSE
  /\ tx_data_ = [i \in 0..kTxBlockSize - 1 |-> 0]
  /\ tx_length_ = 0
  /\ tx_progress_ = 0
  /\ signals = 0
  /\ dm_flags = 0
  /\ t_pc = "none"
  /\ t_flags = 0
  /\ r_pc = "idle"
  /\ r_count = 0
  /\ r_c = 0
  /\ r_pre = 0
  /\ r_cleared = 0
  /\ r_ret = 0
  /\ r_out = <<>>
  /\ rx_stored = <<>>
  /\ w_pc = "idle"
  /\ w_count = 0
  /\ w_free = 0
  /\ w_written = 0
  /\ w_ret = 0
  /\ nAccepted = 0
  /\ g_pc = "idle"
  /\ g_ret = 0

\* The control registers hold their reset value: no source is enabled.
Init == Started({})


(***************************************************************************)
(* Public surface: Initialize                                              *)
(***************************************************************************)
\* ASSERT(device_id_ == kIllegalDeviceId) and ASSERT(device_id != kIllegalDeviceId)
\* of UartDriverImpl::Initialize; own_id is device_id_ of the instance the
\* call runs on
InitializeChecks(own_id, device_id) ==
  own_id = kIllegalDeviceId /\ device_id # kIllegalDeviceId

\* the interrupt sources Initialize leaves enabled
InitializeSourcesKeepsTc(en) == en \cup {"PE", "ERR", "RXNE"}

InitializeSources(en) == (en \cup {"PE", "ERR", "RXNE"}) \ {"TC"}

\* static Initialize(UartDriver*): constructs a new instance, stores it in
\* driver->context and runs UartDriverImpl::Initialize on it.  uart1 is
\* assigned before the checks run.
DoInitialize(device_id) ==
  LET this == nInst + 1
      \* the constructor set device_id_ of the new instance
      own_id == kIllegalDeviceId
  IN  /\ nInst' = this
      /\ context' = this
      /\ Constructed
      /\ uart1' = this
      /\ bound' = bound \cup {this}
      /\ IF InitializeChecks(own_id, device_id)
           THEN /\ device_id_' = device_id
                /\ t_pc' = "wait"
                /\ t_flags' = 0
                /\ signals' = 0
                /\ it_en' = InitializeSources(it_en)
                /\ nvic_en' = TRUE
                /\ halted' = FALSE
           ELSE /\ device_id_' = own_id
                /\ halted' = TRUE
                /\ UNCHANGED <<t_pc, t_flags, signals, it_en, nvic_en>>
      /\ UNCHANGED <<tdr, nArrived, dm_flags, rx_stored, readVars, writeVars,
                     errVars>>

\* the client's first call of driver->Initialize
Initialize ==
  /\ ~halted
  /\ context = 0
  /\ \E device_id \in DeviceIds : DoInitialize(device_id)

\* no client call is in progress and the consumer task waits for a signal
Quiescent ==
  /\ r_pc = "idle" /\ w_pc = "idle" /\ g_pc = "idle"
  /\ t_pc = "wait" /\ signals = 0

\* a further call of driver->Initialize on a driver that is in use; the
\* model follows it from quiescent states only, where the threads of the
\* abandoned instance take no further step
InitializeAgain ==
  /\ ~halted
  /\ context # 0
  /\ nInst < MaxInst
  /\ Quiescent
  /\ \E device_id \in DeviceIds : DoInitialize(device_id)

(***************************************************************************)
(* Interrupt handler                                                       *)
(***************************************************************************)
Conds == {"PE", "FE", "NE", "ORE", "RXNE", "TXE", "TC"}
ErrConds == {"PE", "FE", "NE", "ORE"}

\* the interrupt source that gates a condition (__HAL_UART_GET_IT_SOURCE)
SourceOf(c) == IF c \in {"FE", "NE", "ORE"} THEN "ERR" ELSE c

\* conditions that are pending and whose source is enabled
Serviced(pend, en) == {c \in pend : SourceOf(c) \in en}

\* the code OR-ed into error_ for an error condition
ErrorCodeIsFlag(c) == kErrorBit

ErrorCode(c) ==
  CASE c = "PE" -> HAL_UART_ERROR_PE
    [] c = "FE" -> HAL_UART_ERROR_FE
    [] c = "NE" -> HAL_UART_ERROR_NE
    [] c = "ORE" -> HAL_UART_ERROR_ORE

\* error_ after the four error checks
IsrErrorMask(err, act) ==
  LET or(m, c) == IF c \in act THEN BitOr(m, ErrorCode(c)) ELSE m
  IN  or(or(or(or(err, "PE"), "FE"), "NE"), "ORE")

\* the RX ring after read_buffer_->Write(&byte, 1); on overflow the byte
\* is ignored
RxStoreTwice(cb, byte) == CBWrite(cb, <<byte, byte>>)

RxStoreOverwrites(cb, byte) ==
  IF CBIsFull(cb) THEN CBWrite(CBRead(cb, 1).cb, <<byte>>)
                  ELSE CBWrite(cb, <<byte>>)

RxStore(cb, byte) == CBWrite(cb, <<byte>>)

\* line 190: __HAL_UART_DISABLE_IT(uart_, UART_IT_TXE)
DisableTxeKeeps(en) == en

DisableTxe(en) == en \ {"TXE"}

\* TRUE when the transmit-empty branch finds no more data in the block
TxBlockDoneEarly(progress, length) == ~(progress + 1 < length)

TxBlockDone(progress, length) == ~(progress < length)

\* the local flags at the end of the handler
IsrSignalFlags(act, txDone) ==
  LET e == IF act \cap ErrConds # {} THEN kErrorBit ELSE 0
      r == IF "RXNE" \in act THEN kReceivedBit ELSE 0
      t == IF "TXE" \in act /\ txDone THEN kTransmittedBit ELSE 0
  IN  BitOr(BitOr(e, r), t)

\* osSignalSet(signalThread_, flags), called only when flags != 0
SignalSetOverwrites(sig, flags) == IF flags # 0 THEN flags ELSE sig

SignalSet(sig, flags) == IF flags # 0 THEN BitOr(sig, flags) ELSE sig

\* One invocation of USART1_IRQHandler with the conditions pend pending at
\* the hardware.  The NVIC invokes it only when an enabled source is pending.
InterruptHandler(pend) ==
  LET act == Serviced(pend, it_en)
      rx == "RXNE" \in act
      tx == "TXE" \in act
      done == TxBlockDone(tx_progress_, tx_length_)
      st == RxStore(read_buffer_, RDR(nArrived + 1))
  IN  /\ ~halted
      /\ nvic_en
      /\ uart1 # 0
      /\ act # {}
      /\ "RXNE" \in pend => nArrived < MaxRx
      /\ error_' = IsrErrorMask(error_, act)
      /\ IF rx
           THEN /\ read_buffer_' = st.cb
                /\ rx_stored' = IF st.n = 1
                                  THEN Append(rx_stored, RDR(nArrived + 1))
                                  ELSE rx_stored
                /\ nArrived' = nArrived + 1
           ELSE UNCHANGED <<read_buffer_, rx_stored, nArrived>>
      /\ IF tx /\ ~done
           THEN /\ tdr' = Append(tdr, tx_data_[tx_progress_])
                /\ tx_progress_' = tx_progress_ + 1
                /\ UNCHANGED <<it_en, tx_pending_>>
           ELSE IF tx
             THEN /\ it_en' = DisableTxe(it_en)
                  /\ tx_pending_' = FALSE
                  /\ UNCHANGED <<tdr, tx_progress_>>
             ELSE UNCHANGED <<tdr, tx_progress_, it_en, tx_pending_>>
      \* transmission complete is not handled: UNREACHABLE()
      /\ halted' = ("TC" \in act)
      /\ signals' = SignalSet(signals, IsrSignalFlags(act, done))
      /\ UNCHANGED <<nvic_en, uart1, context, nInst, bound, tx_data_,
                     tx_length_, write_buffer_, device_id_, tx_mutex_,
                     dm_flags, taskVars, readVars, writeVars, errVars>>

\* the hardware raises any combination of the conditions in conds
Interrupts(conds) == \E pend \in SUBSET conds : InterruptHandler(pend)

Interrupt == Interrupts(Conds)

(***************************************************************************)
(* EnsureTransmission, run by thread th ("task" or "writer") under the     *)
(* mutex; one step per line that touches state shared with the handler     *)
(***************************************************************************)
PcOf(th) == IF th = "task" THEN t_pc ELSE w_pc

Goto(th, to) ==
  IF th = "task"
    THEN t_pc' = to /\ UNCHANGED <<t_flags, writeVars>>
    ELSE w_pc' = to /\ UNCHANGED <<w_count, w_free, w_written, w_ret,
                                   nAccepted, taskVars>>

\* where the caller continues after EnsureTransmission returns
Return(th) == IF th = "task" THEN "t114" ELSE "w93"

\* the test of line 120
MayStageAlways(pending) == TRUE

MayStage(pending) == ~pending

\* line 120: if (!tx_pending_)
EnsureCheckPending(th) ==
  /\ ~halted
  /\ PcOf(th) = "et120"
  /\ Goto(th, IF MayStage(tx_pending_) THEN "et121" ELSE "et129")
  /\ UNCHANGED <<hwVars, modVars, txVars, drvVars, readVars, errVars,
                 dm_flags, rx_stored>>

\* tx_data_ after write_buffer_->Read(tx_data_, kTxBlockSize) copied data
StagedFirstOnly(block, data) ==
  [i \in 0..kTxBlockSize - 1 |->
     IF i < Len(data) THEN data[1] ELSE block[i]]

Staged(block, data) ==
  [i \in 0..kTxBlockSize - 1 |->
     IF i < Len(data) THEN data[i + 1] ELSE block[i]]

\* line 121: tx_length_ = write_buffer_->Read(tx_data_, kTxBlockSize)
EnsureFill(th) ==
  LET r == CBRead(write_buffer_, kTxBlockSize)
  IN  /\ ~halted
      /\ PcOf(th) = "et121"
      /\ write_buffer_' = r.cb
      /\ tx_data_' = Staged(tx_data_, r.data)
      /\ tx_length_' = r.n
      /\ Goto(th, "et123")
      /\ UNCHANGED <<hwVars, modVars, tx_pending_, tx_progress_, error_,
                     read_buffer_, device_id_, tx_mutex_, signals, readVars,
                     errVars, dm_flags, rx_stored>>

\* line 124: tx_progress_ = 0
ResetProgressKeeps(progress) == progress

ResetProgress(progress) == 0

\* lines 123-124: if (tx_length_ > 0) tx_progress_ = 0
EnsureResetProgress(th) ==
  /\ ~halted
  /\ PcOf(th) = "et123"
  /\ IF tx_length_ > 0
       THEN tx_progress_' = ResetProgress(tx_progress_) /\ Goto(th, "et125")
       ELSE UNCHANGED tx_progress_ /\ Goto(th, Return(th))
  /\ UNCHANGED <<hwVars, modVars, tx_pending_, tx_data_, tx_length_, drvVars,
                 readVars, errVars, dm_flags, rx_stored>>

\* tx_pending_ after line 125
SetPendingKeeps(pending) == pending

SetPending(pending) == TRUE

\* line 125: tx_pending_ = true
EnsureSetPending(th) ==
  /\ ~halted
  /\ PcOf(th) = "et125"
  /\ tx_pending_' = SetPending(tx_pending_)
  /\ Goto(th, "et126")
  /\ UNCHANGED <<hwVars, modVars, tx_data_, tx_length_, tx_progress_, drvVars,
                 readVars, errVars, dm_flags, rx_stored>>

\* line 126: __HAL_UART_ENABLE_IT(uart_, UART_IT_TXE)
EnsureEnableTxe(th) ==
  /\ ~halted
  /\ PcOf(th) = "et126"
  /\ it_en' = it_en \cup {"TXE"}
  /\ Goto(th, Return(th))
  /\ UNCHANGED <<nvic_en, tdr, nArrived, modVars, txVars, drvVars, readVars,
                 errVars, dm_flags, rx_stored>>

\* lines 129-131: if (write_buffer_->IsFull()) clear the transmitted bit
EnsureBackpressure(th) ==
  /\ ~halted
  /\ PcOf(th) = "et129"
  /\ dm_flags' = IF CBIsFull(write_buffer_)
                   THEN BitClear(dm_flags, kTransmittedBit)
                   ELSE dm_flags
  /\ Goto(th, Return(th))
  /\ UNCHANGED <<hwVars, modVars, txVars, drvVars, readVars, errVars,
                 rx_stored>>

EnsureTransmission(th) ==
  \/ EnsureCheckPending(th)
  \/ EnsureFill(th)
  \/ EnsureResetProgress(th)
  \/ EnsureSetPending(th)
  \/ EnsureEnableTxe(th)
  \/ EnsureBackpressure(th)


(***************************************************************************)
(* Consumer task                                                           *)
(***************************************************************************)
\* the mutex after the ScopedLock of lines 77, 87 and 107 goes out of scope
ScopedUnlockKeeps(holder) == holder

ScopedUnlock(holder) == "none"

\* line 105: osSignalWait(0x0000FFFF, osWaitForever) returns the pending
\* signal bits and clears them
TaskWake ==
  /\ ~halted
  /\ t_pc = "wait"
  /\ signals # 0
  /\ t_flags' = signals
  /\ signals' = 0
  /\ t_pc' = "t107"
  /\ UNCHANGED <<hwVars, modVars, txVars, error_, read_buffer_, write_buffer_,
                 device_id_, tx_mutex_, readVars, writeVars, errVars,
                 dm_flags, rx_stored>>

\* line 109: the task re-arms transmission when the transmitted bit is set
TaskRearms(flags) == BitAnd(flags, kTransmittedBit) # 0

\* lines 107-109: take the mutex, test the transmitted bit
TaskLock ==
  /\ ~halted
  /\ t_pc = "t107"
  /\ tx_mutex_ = "none"
  /\ tx_mutex_' = "task"
  /\ t_pc' = IF TaskRearms(t_flags) THEN "et120" ELSE "t114"
  /\ UNCHANGED <<hwVars, modVars, txVars, error_, read_buffer_, write_buffer_,
                 device_id_, signals, t_flags, readVars, writeVars, errVars,
                 dm_flags, rx_stored>>

\* DeviceManagerSetFlags(device_id_, flags)
SetFlags(dm, flags) == BitOr(dm, flags)

\* DeviceManagerClearFlags(device_id_, flags)
ClearFlags(dm, flags) == BitClear(dm, flags)

\* lines 114-115: forward the signal bits, release the mutex, wait again
TaskSetFlags ==
  /\ ~halted
  /\ t_pc = "t114"
  /\ dm_flags' = SetFlags(dm_flags, t_flags)
  /\ tx_mutex_' = ScopedUnlock(tx_mutex_)
  /\ t_pc' = "wait"
  /\ UNCHANGED <<hwVars, modVars, txVars, error_, read_buffer_, write_buffer_,
                 device_id_, signals, t_flags, readVars, writeVars, errVars,
                 rx_stored>>

Task ==
  \/ TaskWake
  \/ TaskLock
  \/ EnsureTransmission("task")
  \/ TaskSetFlags

(***************************************************************************)
(* Read                                                                    *)
(***************************************************************************)
\* the client calls driver->Read(buffer, count)
ReadCall ==
  /\ ~halted
  /\ context # 0
  /\ r_pc = "idle"
  /\ \E count \in 0..MaxReadCount : r_count' = count
  /\ r_cleared' = 0
  /\ r_pc' = "r77"
  /\ UNCHANGED <<hwVars, modVars, txVars, drvVars, taskVars, r_c, r_pre,
                 r_ret, r_out, writeVars, errVars, dm_flags, rx_stored>>

\* line 77: ScopedLock
ReadLock ==
  /\ ~halted
  /\ r_pc = "r77"
  /\ tx_mutex_ = "none"
  /\ tx_mutex_' = "reader"
  /\ r_pc' = "r78"
  /\ UNCHANGED <<hwVars, modVars, txVars, error_, read_buffer_, write_buffer_,
                 device_id_, signals, taskVars, r_count, r_c, r_pre,
                 r_cleared, r_ret, r_out, writeVars, errVars, dm_flags,
                 rx_stored>>

\* line 78: int c = read_buffer_->Read(buffer, count)
ReadCopy ==
  LET r == CBRead(read_buffer_, r_count)
  IN  /\ ~halted
      /\ r_pc = "r78"
      /\ read_buffer_' = r.cb
      /\ r_c' = r.n
      /\ r_pre' = CBSize(read_buffer_)
      /\ r_out' = r_out \o r.data
      /\ r_pc' = "r79"
      /\ UNCHANGED <<hwVars, modVars, txVars, error_, write_buffer_,
                     device_id_, tx_mutex_, signals, taskVars, r_count,
                     r_cleared, r_ret, writeVars, errVars, dm_flags,
                     rx_stored>>

\* line 79: the condition under which Read clears the received bit
ReadClearsAlways(cb) == TRUE

ReadClears(cb) == CBIsEmpty(cb)

\* lines 79-83: clear the received bit if the ring is empty, unlock, return c
ReadFinish ==
  /\ ~halted
  /\ r_pc = "r79"
  /\ IF ReadClears(read_buffer_)
       THEN /\ dm_flags' = ClearFlags(dm_flags, kReceivedBit)
            /\ r_cleared' = r_cleared + 1
       ELSE UNCHANGED <<dm_flags, r_cleared>>
  /\ r_ret' = r_c
  /\ tx_mutex_' = ScopedUnlock(tx_mutex_)
  /\ r_pc' = "idle"
  \* the locals of the call end with it
  /\ r_count' = 0 /\ r_c' = 0 /\ r_pre' = 0
  /\ UNCHANGED <<hwVars, modVars, txVars, error_, read_buffer_, write_buffer_,
                 device_id_, signals, taskVars, r_out, writeVars, errVars,
                 rx_stored>>

Read == ReadCall \/ ReadLock \/ ReadCopy \/ ReadFinish

(***************************************************************************)
(* Write                                                                   *)
(***************************************************************************)
\* the bytes at buffer + offset, count of them; the client's buffer holds
\* Payload
WriteDataNoOffset(offset, count) == SubSeq(Payload, 1, count)

WriteData(offset, count) == SubSeq(Payload, offset + 1, offset + count)

\* the client calls driver->Write(buffer, offset, count) with the bytes of
\* Payload it has not yet had accepted (offset = nAccepted)
WriteCall ==
  /\ ~halted
  /\ context # 0
  /\ w_pc = "idle"
  /\ \E count \in 0..(MaxBytes - nAccepted) : w_count' = count
  /\ w_pc' = "w87"
  /\ UNCHANGED <<hwVars, modVars, txVars, drvVars, taskVars, readVars,
                 w_free, w_written, w_ret, nAccepted, errVars, dm_flags,
                 rx_stored>>

\* line 87: ScopedLock
WriteLock ==
  /\ ~halted
  /\ w_pc = "w87"
  /\ tx_mutex_ = "none"
  /\ tx_mutex_' = "writer"
  /\ w_pc' = "w88"
  /\ UNCHANGED <<hwVars, modVars, txVars, error_, read_buffer_, write_buffer_,
                 device_id_, signals, taskVars, readVars, w_count, w_free,
                 w_written, w_ret, nAccepted, errVars, dm_flags, rx_stored>>

\* line 90: EnsureTransmission is called if any byte was accepted
WriteStarts(written_count) == written_count > 0

\* lines 88-90: written_count = write_buffer_->Write(buffer + offset, count)
WriteCopy ==
  LET r == CBWrite(write_buffer_, WriteData(nAccepted, w_count))
  IN  /\ ~halted
      /\ w_pc = "w88"
      /\ write_buffer_' = r.cb
      /\ w_free' = CBFree(write_buffer_)
      /\ w_written' = r.n
      /\ nAccepted' = nAccepted + r.n
      /\ w_pc' = IF WriteStarts(r.n) THEN "et120" ELSE "w93"
      /\ UNCHANGED <<hwVars, modVars, txVars, error_, read_buffer_,
                     device_id_, tx_mutex_, signals, taskVars, readVars,
                     w_count, w_ret, errVars, dm_flags, rx_stored>>

\* line 93: the value Write returns
WriteResultCount(count, written_count) == count

WriteResult(count, written_count) == written_count

\* lines 93-94: return written_count, unlock
WriteReturn ==
  /\ ~halted
  /\ w_pc = "w93"
  /\ w_ret' = WriteResult(w_count, w_written)
  /\ tx_mutex_' = ScopedUnlock(tx_mutex_)
  /\ w_pc' = "idle"
  \* the locals of the call end with it
  /\ w_count' = 0 /\ w_free' = 0 /\ w_written' = 0
  /\ UNCHANGED <<hwVars, modVars, txVars, error_, read_buffer_, write_buffer_,
                 device_id_, signals, taskVars, readVars, nAccepted, errVars,
                 dm_flags, rx_stored>>

Write ==
  \/ WriteCall
  \/ WriteLock
  \/ WriteCopy
  \/ EnsureTransmission("writer")
  \/ WriteReturn

(***************************************************************************)
(* GetError (takes no mutex)                                               *)
(***************************************************************************)
\* line 97: DeviceManagerClearFlags(device_id_, kErrorBit)
GetErrorClear ==
  /\ ~halted
  /\ context # 0
  /\ g_pc = "idle"
  /\ dm_flags' = ClearFlags(dm_flags, kErrorBit)
  /\ g_pc' = "g98"
  /\ UNCHANGED <<hwVars, modVars, txVars, drvVars, taskVars, readVars,
                 writeVars, g_ret, rx_stored>>

\* error_ after GetError has read it
GetErrorResets(err) == 0

GetErrorKeeps(err) == err

\* line 98: return error_
GetErrorReturn ==
  /\ ~halted
  /\ g_pc = "g98"
  /\ g_ret' = error_
  /\ error_' = GetErrorKeeps(error_)
  /\ g_pc' = "idle"
  /\ UNCHANGED <<hwVars, modVars, txVars, read_buffer_, write_buffer_,
                 device_id_, tx_mutex_, signals, taskVars, readVars,
                 writeVars, dm_flags, rx_stored>>

GetError == GetErrorClear \/ GetErrorReturn

(***************************************************************************)
(* Specifications                                                          *)
(***************************************************************************)
\* a driver that is initialised once and then used
Next ==
  \/ Initialize
  \/ Interrupt
  \/ Task
  \/ Read
  \/ Write
  \/ GetError

Spec == Init /\ [][Next]_vars

\* the transmit path: the hardware raises transmit-empty only and the
\* clients call Write only
NextTx ==
  \/ Initialize
  \/ Interrupts({"TXE"})
  \/ Task
  \/ Write

SpecTx == Init /\ [][NextTx]_vars

\* the steps of a Write call that holds the mutex
WriteRuns == WriteCopy \/ EnsureTransmission("writer") \/ WriteReturn

\* the steps of the consumer task other than taking the mutex
TaskRuns == TaskWake \/ EnsureTransmission("task") \/ TaskSetFlags

\* The transmit path with its scheduling: the transmit-empty interrupt
\* fires while its source is enabled, a thread that can run does run, and
\* the mutex is handed to a thread that waits for it.
LiveSpecTx ==
  /\ SpecTx
  /\ WF_vars(Interrupts({"TXE"}))
  /\ WF_vars(TaskRuns)
  /\ SF_vars(TaskLock)
  /\ WF_vars(WriteRuns)
  /\ SF_vars(WriteLock)

\* The steps of the consumer task outside EnsureTransmission: all the task
\* does while the handler never signals the transmitted bit, which it does
\* only on a transmit-empty interrupt.
TaskForwards == TaskWake \/ TaskLock \/ TaskSetFlags

\* the receive path: the hardware raises receive-not-empty only and the
\* clients call Read only
NextRx ==
  \/ Initialize
  \/ Interrupts({"RXNE"})
  \/ TaskForwards
  \/ Read

SpecRx == Init /\ [][NextRx]_vars

\* the steps of a Read call that holds the mutex
ReadRuns == ReadCopy \/ ReadFinish

\* the client keeps calling Read for at least one byte
ReadAgain == ReadCall /\ r_count' > 0

\* The receive path with its scheduling, and a client that keeps reading.
LiveSpecRx ==
  /\ SpecRx
  /\ WF_vars(TaskWake \/ TaskSetFlags)
  /\ SF_vars(TaskLock)
  /\ SF_vars(ReadAgain)
  /\ WF_vars(ReadRuns)
  /\ SF_vars(ReadLock)

\* the error path
NextErr ==
  \/ Initialize
  \/ Interrupts(ErrConds)
  \/ TaskForwards
  \/ GetError

SpecErr == Init /\ [][NextErr]_vars

\* a client that may call Initialize again on a driver in use
NextInit == NextTx \/ InitializeAgain

SpecInit == Init /\ [][NextInit]_vars


(***************************************************************************)
(* Properties                                                              *)
(***************************************************************************)
\* the bytes Write has accepted, in the order it accepted them
Accepted == SubSeq(Payload, 1, nAccepted)

ReceivedSet(dm) == Bit(dm, 0) = 1
ErrorSet(dm) == Bit(dm, 3) = 1

\* C1: every byte accepted by Write is written to the transmit data
\* register exactly once and in the order of acceptance (the register's
\* history is always a prefix of the accepted stream), and every accepted
\* byte is eventually written, under LiveSpecTx.
C1_AcceptedBytesAreSent ==
  /\ [](IsPrefix(tdr, Accepted))
  /\ \A n \in 1..MaxBytes : (nAccepted >= n) ~> (Len(tdr) >= n)

\* the whole stream has reached the hardware, which took more than one
\* Write call because the stream is longer than the ring
C1_Witness ==
  /\ MaxBytes > kTxBufferSize
  /\ nAccepted = MaxBytes
  /\ tdr = Payload

\* C2: Write accepts and returns exactly min(count, free space of the TX
\* ring): the ring gains exactly the first min(count, free) bytes offered
\* and nothing else, and the call returns that number.
C2_WriteReturnsWhatFits ==
  [][/\ (w_pc = "w88" /\ w_pc' # "w88") =>
          LET free == kTxBufferSize - Len(CBContents(write_buffer_))
              fit == Min(w_count, free)
          IN  /\ w_written' = fit
              /\ nAccepted' = nAccepted + fit
              /\ CBContents(write_buffer_') =
                   CBContents(write_buffer_)
                     \o SubSeq(Payload, nAccepted + 1, nAccepted + fit)
              /\ (free = 0 => w_written' = 0)
     /\ (w_pc = "w93" /\ w_pc' = "idle") =>
          w_ret' = Min(w_count, w_free)
    ]_vars

\* a Write of more than the ring capacity into an idle driver with an empty
\* ring is about to return the ring capacity
C2_Witness ==
  /\ w_pc = "w93"
  /\ w_count > kTxBufferSize
  /\ w_free = kTxBufferSize
  /\ w_written = kTxBufferSize

\* C3: the bytes returned by Read calls are a prefix of the bytes the
\* handler stored, the stored bytes not yet returned are exactly the
\* content of the RX ring, and while the client keeps reading every stored
\* byte is eventually returned (LiveSpecRx).
C3_ReadsReturnStoredBytes ==
  /\ [](/\ IsPrefix(r_out, rx_stored)
        /\ rx_stored = r_out \o CBContents(read_buffer_))
  /\ \A n \in 1..MaxRx : (Len(rx_stored) >= n) ~> (Len(r_out) >= n)

\* bytes arrived while a Read call was in progress and Read calls have
\* returned several bytes
C3_Witness ==
  /\ r_pc = "r79"
  /\ r_c > 0
  /\ ~CBIsEmpty(read_buffer_)
  /\ Len(r_out) >= 2

\* TRUE of a step in which a Read call returns
ReadReturns == r_pc = "r79" /\ r_pc' = "idle"

\* C4 as stated: Read clears the received bit exactly when that call took
\* the RX ring from non-empty to empty.
C4_ClearOnlyOnTransition ==
  [][ReadReturns => (r_cleared' = 1 <=> (r_pre > 0 /\ r_c = r_pre))]_vars

\* C4 amended: Read clears the received bit exactly when the RX ring is
\* empty at its check after the copy, at most once per call, and never
\* when it sees bytes left in the ring.
C4_ClearWhenEmptyAtCheck ==
  [][ReadReturns =>
       /\ r_cleared = 0
       /\ r_cleared' = (IF CBIsEmpty(read_buffer_) THEN 1 ELSE 0)
       /\ (r_cleared' = 1 => ~ReceivedSet(dm_flags'))
       /\ (r_cleared' = 0 => dm_flags' = dm_flags)
    ]_vars

\* a Read that found the RX ring already empty has cleared the bit
C4_Witness ==
  /\ r_pc = "idle"
  /\ r_cleared = 1
  /\ r_ret = 0
  /\ rx_stored = <<>>

\* C5: once every stored byte has been returned by Read, the RX ring is
\* empty and the system is quiescent, the received bit is clear.
C5_ReceivedClearWhenDrained ==
  (/\ Quiescent
   /\ rx_stored # <<>>
   /\ r_out = rx_stored
   /\ CBIsEmpty(read_buffer_))
  => ~ReceivedSet(dm_flags)

\* TRUE of a step in which GetError returns
GetErrorReturns == g_pc = "g98" /\ g_pc' = "idle"

\* C6: no step clears a bit of the error mask; GetError returns the mask as
\* it is, leaves it unchanged, and clears the error readiness bit.
C6_ErrorMaskSticky ==
  [][/\ BitAnd(error_, error_') = error_
     /\ GetErrorReturns => (g_ret' = error_ /\ error_' = error_)
     /\ (g_pc = "idle" /\ g_pc' = "g98") => ~ErrorSet(dm_flags')
    ]_vars

\* GetError has returned a mask that holds several errors and the mask is
\* still in place
C6_Witness ==
  /\ g_pc = "idle"
  /\ g_ret = error_
  /\ Bit(error_, 1) = 1
  /\ Bit(error_, 2) = 1

\* TRUE of a step in which the handler services a parity error
ParityInterrupt ==
  \E pend \in SUBSET ErrConds : "PE" \in pend /\ InterruptHandler(pend)

\* C7 as stated: a parity-error interrupt sets bit 3 of the error mask.
C7_ParitySetsBit3 ==
  [][ParityInterrupt => Bit(error_', 3) = 1]_vars

\* C7 amended: a parity-error interrupt sets the parity code
\* HAL_UART_ERROR_PE (bit 0) in the error mask and raises signal bit 3; a
\* GetError that reads a mask holding the parity code returns it, and
\* GetError clears the error readiness bit.
C7_ParitySetsParityCode ==
  [][/\ ParityInterrupt =>
          /\ BitAnd(error_', HAL_UART_ERROR_PE) = HAL_UART_ERROR_PE
          /\ BitAnd(signals', kErrorBit) = kErrorBit
     /\ (GetErrorReturns /\ Bit(error_, 0) = 1) =>
          BitAnd(g_ret', HAL_UART_ERROR_PE) = HAL_UART_ERROR_PE
     /\ (g_pc = "idle" /\ g_pc' = "g98") => ~ErrorSet(dm_flags')
    ]_vars

\* after a parity error alone, GetError has returned the parity code and
\* not bit 3, and the error readiness bit is clear
C7_Witness ==
  /\ g_pc = "idle"
  /\ g_ret = HAL_UART_ERROR_PE
  /\ ~ErrorSet(dm_flags)

\* C8: a second Initialize through the public surface fails fatally, and
\* at most one instance is ever bound to the interrupt vector.
C8_SingleInstance ==
  /\ nInst >= 2 => halted
  /\ Cardinality(bound) <= 1

\* a transmission has been staged at least once
StagedOnce == tx_pending_ \/ tdr # <<>>

\* C9 as stated: after the first staging the progress cursor never exceeds
\* the length.
C9_ProgressWithinLength ==
  StagedOnce => tx_progress_ <= tx_length_

\* C9 amended: while a transmission is pending the progress cursor does
\* not exceed the length.
C9_ProgressWithinLengthWhilePending ==
  tx_pending_ => tx_progress_ <= tx_length_

\* a second block is pending and the handler has sent all of it
C9_Witness ==
  /\ tx_pending_
  /\ Len(tdr) > kTxBlockSize
  /\ tx_length_ > 0
  /\ tx_progress_ = tx_length_

TxeEnabled == "TXE" \in it_en

\* C10 as stated: pending iff the block has unsent bytes and the
\* transmit-empty source is enabled.
C10_PendingIffUnsentAndEnabled ==
  tx_pending_ <=> (tx_progress_ < tx_length_ /\ TxeEnabled)

\* C10 amended: pending iff the transmit-empty source is enabled or
\* EnsureTransmission has set the flag and is about to enable the source;
\* unsent bytes with the source enabled imply pending, not the converse.
C10_PendingIffEnabled ==
  /\ tx_pending_ <=> (TxeEnabled \/ t_pc = "et126" \/ w_pc = "et126")
  /\ (tx_progress_ < tx_length_ /\ TxeEnabled) => tx_pending_

\* the flag is set and the source is not yet enabled
C10_Witness ==
  /\ tx_pending_
  /\ ~TxeEnabled
  /\ tdr # <<>>

TransmittedSet(dm) == Bit(dm, 1) = 1

\* TRUE of a step in which the consumer task releases the mutex after it
\* has run EnsureTransmission
TaskReleasesAfterEnsure ==
  t_pc = "t114" /\ t_pc' = "wait" /\ TaskRearms(t_flags)

\* TRUE of a step in which a Write call releases the mutex after it has run
\* EnsureTransmission
WriteReleasesAfterEnsure ==
  w_pc = "w93" /\ w_pc' = "idle" /\ WriteStarts(w_written)

\* C11: when a caller of EnsureTransmission releases the mutex with the TX
\* ring full (EnsureTransmission then found a transmission pending and the
\* ring full, for it would have emptied part of the ring otherwise), the
\* transmitted readiness bit is clear.
C11_BackpressureOnRelease ==
  [][((TaskReleasesAfterEnsure \/ WriteReleasesAfterEnsure)
        /\ CBIsFull(write_buffer_))
       => ~TransmittedSet(dm_flags')]_vars

\* the signal path: the hardware raises parity-error, receive-not-empty and
\* transmit-empty conditions in any combination (MaxSigRx bytes arrive), and
\* a Write client that sends MaxSigBytes bytes competes with the consumer
\* task for the mutex
NextSig ==
  \/ Initialize
  \/ Interrupts({"PE", "RXNE", "TXE"}) /\ nArrived' <= MaxSigRx
  \/ Task
  \/ Write /\ (w_pc = "idle" => nAccepted + w_count' <= MaxSigBytes)

SpecSig == Init /\ [][NextSig]_vars

\* The signal path with its scheduling: a thread that can run does run and
\* the mutex is handed to the task when it waits for it.
LiveSpecSig ==
  /\ SpecSig
  /\ WF_vars(TaskRuns)
  /\ SF_vars(TaskLock)
  /\ WF_vars(WriteRuns)

\* the signal bits the handler raises
SignalBits == {0, 1, 3}

\* the task has taken bit b from its signals and has not yet forwarded it
TaskHolds(b) == t_pc \notin {"none", "wait"} /\ Bit(t_flags, b) = 1

\* the task has just forwarded bit b in a SetFlags call
TaskForwarded(b) ==
  t_pc = "wait" /\ Bit(t_flags, b) = 1 /\ Bit(dm_flags, b) = 1

\* C12: every signal bit the handler raises is taken by the consumer task
\* and forwarded in a SetFlags call, and a raised transmitted bit leads the
\* task into EnsureTransmission (LiveSpecSig).
C12_NoSignalLost ==
  /\ \A b \in SignalBits : (Bit(signals, b) = 1) ~> TaskHolds(b)
  /\ \A b \in SignalBits : TaskHolds(b) ~> TaskForwarded(b)
  /\ (Bit(signals, 1) = 1) ~> (t_pc = "et120")

\* the task is about to forward all three bits in one call, and a further
\* interrupt has raised a signal while the task holds the mutex
C12_Witness ==
  /\ t_pc = "t114"
  /\ t_flags = kReceivedBit + kTransmittedBit + kErrorBit
  /\ tx_mutex_ = "task"
  /\ signals # 0

\* bytes of a Write call in progress that the ring has not accepted yet
WriteOffered == IF w_pc \in {"w87", "w88"} THEN w_count ELSE 0

\* the mutex path: both clients call Read and Write while the hardware
\* raises receive-not-empty and transmit-empty conditions; the bytes the
\* writer offers and the bytes that arrive are MaxLockTraffic together, and
\* the reader asks for no more bytes than have arrived
NextMutex ==
  \/ Initialize
  \/ Interrupts({"RXNE", "TXE"})
       /\ nArrived' + nAccepted + WriteOffered <= MaxLockTraffic
  \/ Task
  \/ Read /\ (r_pc = "idle" => r_count' <= nArrived)
  \/ Write /\ (w_pc = "idle" =>
                 nAccepted + w_count' + nArrived <= MaxLockTraffic)

SpecMutex == Init /\ [][NextMutex]_vars

\* The mutex path with its scheduling: a thread that can run does run and
\* the mutex is handed to a thread that waits for it.
LiveSpecMutex ==
  /\ SpecMutex
  /\ WF_vars(TaskRuns)
  /\ SF_vars(TaskLock)
  /\ WF_vars(ReadRuns)
  /\ SF_vars(ReadLock)
  /\ WF_vars(WriteRuns)
  /\ SF_vars(WriteLock)

\* TRUE of a step of the interrupt handler
InterruptStep == \E pend \in SUBSET Conds : InterruptHandler(pend)

\* the holder of the mutex has a step it can take
HolderCanRun ==
  /\ tx_mutex_ = "task" => ENABLED TaskRuns
  /\ tx_mutex_ = "reader" => ENABLED ReadRuns
  /\ tx_mutex_ = "writer" => ENABLED WriteRuns

\* C13: the handler never touches the mutex, the holder of the mutex can
\* always run on to its release, and every Read and Write call returns
\* (LiveSpecMutex).
C13_NoDeadlock ==
  /\ [][InterruptStep => tx_mutex_' = tx_mutex_]_vars
  /\ [](~halted => HolderCanRun)
  /\ (r_pc # "idle") ~> (r_pc = "idle")
  /\ (w_pc # "idle") ~> (w_pc = "idle")

\* both clients wait for the mutex while the task holds it and an interrupt
\* has raised a new signal
C13_Witness ==
  /\ r_pc = "r77"
  /\ w_pc = "w87"
  /\ tx_mutex_ = "task"
  /\ signals # 0

\* TRUE of a step in which the handler services a receive interrupt
ReceiveInterrupt ==
  \E pend \in SUBSET Conds : "RXNE" \in pend /\ InterruptHandler(pend)

\* C14: a receive interrupt that finds the RX ring full drops the byte: the
\* ring and the error mask are unchanged, the byte is taken from the
\* receive register all the same (the next interrupt brings the next byte)
\* and the received signal bit is raised; Read returns the oldest bytes of
\* the ring as they were stored.
C14_OverflowDropsByte ==
  [][/\ (ReceiveInterrupt /\ CBIsFull(read_buffer_)) =>
          /\ read_buffer_' = read_buffer_
          /\ rx_stored' = rx_stored
          /\ error_' = error_
          /\ nArrived' = nArrived + 1
          /\ BitAnd(signals', kReceivedBit) = kReceivedBit
     /\ (r_pc = "r78" /\ r_pc' = "r79") =>
          /\ r_c' = Min(r_count, Len(CBContents(read_buffer_)))
          /\ r_out' = r_out \o SubSeq(CBContents(read_buffer_), 1, r_c')
          /\ IsPrefix(r_out', rx_stored)
    ]_vars

\* a byte was dropped on a full ring and Read has since returned every byte
\* that was stored
C14_Witness ==
  /\ nArrived > Len(rx_stored)
  /\ Len(rx_stored) = kRxBufferSize
  /\ r_out = rx_stored
  /\ r_pc = "idle"

\* TRUE of a step in which the handler services a transmit-empty interrupt
TxeInterrupt ==
  \E pend \in SUBSET Conds :
    "TXE" \in Serviced(pend, it_en) /\ InterruptHandler(pend)

\* the bytes of the staging block, in order
StagedBlock == [i \in 1..tx_length_ |-> tx_data_[i - 1]]

\* the last n elements of s
Suffix(s, n) == SubSeq(s, Len(s) - n + 1, Len(s))

\* TRUE of a step in which the handler raises the transmitted signal bit
SignalsTransmitted ==
  \E pend \in SUBSET Conds :
    /\ InterruptHandler(pend)
    /\ BitAnd(IsrSignalFlags(Serviced(pend, it_en),
                             TxBlockDone(tx_progress_, tx_length_)),
              kTransmittedBit) # 0

\* C15: a transmit-empty interrupt either writes the next staging byte and
\* advances the cursor without raising the transmitted bit, or disables its
\* source, clears pending and raises the transmitted bit; the bit is raised
\* only by an invocation that finds the whole pending block in the data
\* register's history, and once per staged block: raising it ends the
\* pending state, which only a new staging begins and which always ends.
C15_TxeEitherSendsOrSignals ==
  /\ [][TxeInterrupt =>
          IF tx_progress_ < tx_length_
            THEN /\ tdr' = Append(tdr, tx_data_[tx_progress_])
                 /\ tx_progress_' = tx_progress_ + 1
                 /\ it_en' = it_en
                 /\ tx_pending_' = tx_pending_
                 /\ Bit(signals', 1) = Bit(signals, 1)
                 /\ ~SignalsTransmitted
            ELSE /\ tdr' = tdr
                 /\ tx_progress_' = tx_progress_
                 /\ it_en' = it_en \ {"TXE"}
                 /\ tx_pending_' = FALSE
                 /\ Bit(signals', 1) = 1
                 /\ SignalsTransmitted]_vars
  /\ [][SignalsTransmitted =>
          /\ TxeInterrupt
          /\ tx_pending_ /\ ~tx_pending_'
          /\ tx_progress_ = tx_length_
          /\ Len(tdr) >= tx_length_
          /\ Suffix(tdr, tx_length_) = StagedBlock]_vars
  /\ [][(tx_pending_ /\ ~tx_pending_') => SignalsTransmitted]_vars
  /\ [][(~tx_pending_ /\ tx_pending_') =>
          /\ "et125" \in {t_pc, w_pc}
          /\ tx_progress_ = 0 /\ tx_length_ > 0]_vars
  /\ tx_pending_ ~> ~tx_pending_

\* the handler has signalled the end of a first block and a second block is
\* part-way through transmission
C15_Witness ==
  /\ tx_pending_
  /\ Len(tdr) > kTxBlockSize
  /\ 0 < tx_progress_ /\ tx_progress_ < tx_length_
  /\ Bit(signals, 1) = 1

\* a thread is inside EnsureTransmission at a line that writes the staging
\* block: line 121 (data and length) or line 124 (progress)
WritesStaging(th) == PcOf(th) \in {"et121", "et123"}

\* C16: task-level code writes the staging block only while pending is
\* false and the transmit-empty source is disabled: both hold whenever a
\* thread stands at a writing line of EnsureTransmission, and once the
\* driver runs every other change of the block is made by the handler.
C16_StagingWrittenWhenIdle ==
  /\ [](\A th \in {"task", "writer"} :
          WritesStaging(th) => (~tx_pending_ /\ ~TxeEnabled))
  /\ [][(uart1 # 0 /\ <<tx_data_, tx_length_, tx_progress_>>' #
                      <<tx_data_, tx_length_, tx_progress_>>) =>
          \/ TxeInterrupt
          \/ \E th \in {"task", "writer"} :
               WritesStaging(th) /\ PcOf(th)' # PcOf(th)]_vars

\* a thread has just staged a second block, after the handler finished the
\* first, and has not yet reset the cursor
C16_Witness ==
  /\ w_pc = "et123"
  /\ tdr # <<>>
  /\ tx_length_ > 0
  /\ tx_progress_ > 0
  /\ ~tx_pending_ /\ ~TxeEnabled

\* The transmit path with the transmission-complete condition pending at
\* the hardware at arbitrary times, started from control registers in which
\* the transmission-complete source may have been left enabled (neither the
\* constructor nor HAL_UART_Init touches the interrupt enable bits).
InitTc == \E en \in SUBSET {"TC"} : Started(en)

NextTc ==
  \/ Initialize
  \/ Interrupts({"TXE", "TC"})
  \/ Task
  \/ Write

SpecTc == InitTc /\ [][NextTc]_vars

\* TRUE of a step in which the handler takes the transmission-complete
\* branch of lines 197-201
TcBranchTaken ==
  \E pend \in SUBSET Conds :
    "TC" \in Serviced(pend, it_en) /\ InterruptHandler(pend)

\* C17: once Initialize has run to its end (the interrupt line is enabled)
\* the transmission-complete source is disabled and no step enables it, so the handler never takes the
\* transmission-complete branch, whichever conditions are pending.
C17_TcNeverServiced ==
  /\ [](nvic_en => "TC" \notin it_en)
  /\ [][("TC" \notin it_en) => ("TC" \notin it_en')]_vars
  /\ [][~TcBranchTaken]_vars

\* the source was enabled before Initialize, the driver is transmitting and
\* the handler has run with the source disabled
C17_Witness ==
  /\ nvic_en
  /\ "TC" \notin it_en
  /\ tdr # <<>>
  /\ tx_pending_
  /\ ENABLED InterruptHandler({"TXE", "TC"})

\* C18: whenever the transmit-empty source is enabled a transmission is
\* pending.
C18_TxeEnabledImpliesPending ==
  ("TXE" \in it_en) => tx_pending_

\* the source is enabled for a second block of which the handler has sent
\* every byte but has not yet run again
C18_Witness ==
  /\ "TXE" \in it_en
  /\ tx_pending_
  /\ tx_progress_ = tx_length_
  /\ Len(tdr) > tx_length_

\* a thread has refilled the staging block from the ring (line 121) and has
\* not yet marked the transmission pending (line 125)
Refilling == \E th \in {"task", "writer"} : PcOf(th) \in {"et123", "et125"}

\* the bytes of the staging block not yet written to the data register
Unsent ==
  IF tx_pending_
    THEN [i \in 1..(tx_length_ - tx_progress_) |->
            tx_data_[tx_progress_ + i - 1]]
    ELSE <<>>

\* C19: TX byte conservation.  Outside a refill of the staging block the
\* accepted bytes are the data register's history, then the unsent part of
\* a pending staging block, then the contents of the TX ring.
C19_TxBytesConserved ==
  ~Refilling => Accepted = tdr \o Unsent \o CBContents(write_buffer_)

\* accepted bytes are in all three places at once
C19_Witness ==
  /\ ~Refilling
  /\ tdr # <<>>
  /\ Unsent # <<>>
  /\ ~CBIsEmpty(write_buffer_)
  /\ Len(tdr) > kTxBlockSize

\* The error path when every error interrupt reports an error that the mask
\* does not hold yet, so that a mask equal to the one GetError returned
\* means that no error interrupt ran since GetError read it.
NextErrOnce ==
  \/ Initialize
  \/ Interrupts(ErrConds) /\ error_' # error_
  \/ TaskForwards
  \/ GetError

SpecErrOnce == Init /\ [][NextErrOnce]_vars

\* C20: after GetError has returned a mask that reports every error so far,
\* no step sets the error readiness bit: the bit is set again only after an
\* error interrupt later than the call, not by the consumer task forwarding
\* an error the returned mask already reported.
C20_NoStaleErrorReady ==
  [][(g_pc = "idle" /\ g_ret # 0 /\ g_ret = error_ /\ ~ErrorSet(dm_flags))
       => ~ErrorSet(dm_flags')]_vars

=============================================================================
